---------------------------- MODULE Spec2Model ----------------------------
(***************************************************************************)
(* TwitchWebhookManager (src/src/webhooks.ts): the subscription lifecycle, *)
(* the hub request protocol and the signature gate, as a state machine.    *)
(*                                                                         *)
(* Every call of a public operation and every inbound HTTP request is a    *)
(* "call" that runs in steps: one step per stretch of code between two     *)
(* awaits.  A store operation takes effect in the step that resumes from   *)
(* its await.  The hub, the hub's callbacks and the clock are environment: *)
(* their values are chosen nondeterministically.                           *)
(***************************************************************************)
EXTENDS Integers, Sequences, FiniteSets, TLC

\* Number of calls (operations and inbound requests) of one behaviour.
MaxCalls == 2
Calls == 1..MaxCalls

\* An optional value: undefined/null, or a value.
None == {}
Some(v) == {v}
The(o) == CHOOSE v \in o : TRUE

\* WebhookType members and the query strings of their topics; an id is
\* getIdFromTypeAndParams(type, search), the callback path's last segment
\* followed by the query string.
WebhookTypes == {"UserFollows", "UserChanged"}
Searches == {"?first=1&to_id=7", "?id=7"}
getIdFromTypeAndParams(type, search) == <<type, search>>
WebhookIds ==
    {getIdFromTypeAndParams("UserFollows", "?first=1&to_id=7"),
     getIdFromTypeAndParams("UserChanged", "?id=7")}
FirstId == getIdFromTypeAndParams("UserFollows", "?first=1&to_id=7")
NoId == <<>>
TypeOf(id) == id[1]
HrefOf(id) == <<"topic", id>>

\* The associatedUser the add...Subscription wrappers pass on.
associatedUser(id) == IF TypeOf(id) = "UserChanged" THEN Some("7") ELSE None

Secrets == {"s1", "s2"}
LeaseOptions == {1}

\* A WebhookPersistenceObject as createWebhookPersistenceObject builds it.
createWebhookPersistenceObject(id, secret, leaseSeconds) ==
    [id |-> id, href |-> HrefOf(id), secret |-> secret,
     leaseSeconds |-> leaseSeconds, subscribed |-> FALSE,
     subscriptionStart |-> None, subscriptionEnd |-> None]

\* The persistence manager: a key-value store of records.
getWebhookById(s, id) == IF id \in DOMAIN s THEN Some(s[id]) ELSE None
persistWebhook(s, w) == [i \in DOMAIN s \cup {w.id} |-> IF i = w.id THEN w ELSE s[i]]
saveWebhook(s, w) == [i \in DOMAIN s \cup {w.id} |-> IF i = w.id THEN w ELSE s[i]]
deleteWebhook(s, id) == [i \in DOMAIN s \ {id} |-> s[i]]

\* Access tokens: getOAuthToken(userId) and refreshOAuthToken(token).
getOAuthToken(userId) == <<"token", userId>>
refreshOAuthToken(token) == <<"refreshed", token>>

\* What the hub may answer.
HubStatuses == {200, 401, 500}
Is2xx(statusCode) == statusCode \div 100 = 2

\* got.post with the options of doHubRequest.  got 11 (package.json) rejects
\* with an HTTPError when throwHttpErrors is left at its default and the
\* response is neither 2xx nor 304.
throwHttpErrors == TRUE
retryOnce == 0 + 1
retry == 0
RetriedStatuses == {500}
isResponseOk(statusCode) == Is2xx(statusCode) \/ statusCode = 304
gotResolves(statusCode) == throwHttpErrors => isResponseOk(statusCode)

\* A JavaScript string is truthy unless it is empty; null is falsy.
Truthy(o) == o # None /\ The(o) # ""
TruthyChars(o) == o # None /\ Len(The(o)) > 0

\* parseInt on a string of characters: the value of the leading digits, NaN
\* when there is none.  A Date built from NaN is an invalid date.
NaN == -1
Digits == <<"0", "1", "2", "3", "4", "5", "6", "7", "8", "9">>
IsDigit(ch) == \E d \in 1..10 : Digits[d] = ch
DigitValue(ch) == (CHOOSE d \in 1..10 : Digits[d] = ch) - 1
RECURSIVE LeadingDigits(_, _)
LeadingDigits(str, acc) ==
    IF str = <<>> \/ ~IsDigit(Head(str)) THEN acc
    ELSE LeadingDigits(Tail(str), acc * 10 + DigitValue(Head(str)))
parseInt(str) ==
    IF str = <<>> \/ ~IsDigit(Head(str)) THEN NaN ELSE LeadingDigits(str, 0)
DatePlusSeconds(time, seconds) == IF seconds = NaN THEN NaN ELSE time + seconds * 1000

\* The values of the query parameters of a verification GET.
HubModes == {None, Some("denied"), Some("unsubscribe"), Some("subscribe")}
HubLeases == {None, Some(<<"2">>), Some(<<"x">>)}
HubChallenges == {Some("c1"), Some("c2")}
HubReasons == {None, Some("r1")}
Query(mode, lease, challenge, reason) ==
    [mode |-> mode, lease_seconds |-> lease, challenge |-> challenge, reason |-> reason]
NoQuery == Query(None, None, None, None)

\* The clock: what new Date() reads, and by how much a later Date.now() of the
\* same handler may be ahead of it.
Clock == {1}
ClockDrift == {0, 1}

\* crypto.createHmac('sha256', secret).update(body).digest('hex'), with no
\* collisions.
Hmac(secret, body) == <<secret, body>>
Bodies == {"b1", "b2"}
\* An X-Hub-Signature header split at '='.
Headers ==
    {None, Some(<<"garbage">>)} \cup {Some(<<"sha256", Hmac(s, "b1")>>) : s \in Secrets}
SignatureOf(header) == IF Len(The(header)) >= 2 THEN Some(The(header)[2]) ELSE None

\* Events as emit hands them to the listeners.
Event(name, id, info) == [name |-> name, id |-> id, info |-> info]
SpecificEventName(type) ==
    CASE type = "UserFollows" -> "userFollows"
      [] type = "StreamChanged" -> "streamChanged"
      [] type = "UserChanged" -> "userChanged"
      [] type = "ExtensionTransactionCreated" -> "extensionTransactionCreated"
      [] type = "ModeratorChange" -> "moderatorChangeEvent"
      [] type = "ChannelBanChange" -> "channelBanEvent"
      [] type = "Subscription" -> "subscriptionEvent"
      [] OTHER -> ""

\* store: the persistence manager's records; scheduler: the ids registered with
\* the renewal scheduler; renewalScheduler: whether config.renewalScheduler is
\* set; calls: the calls in flight, and of a finished call what later calls can
\* depend on; completed: the call that finished in the latest step, as its
\* caller or the hub observes it; bulk: the call of unsubFromAll; throwing: the
\* names of the events that have a listener that throws; manager: the renewal
\* timer and the call of destroy.
VARIABLES store, scheduler, renewalScheduler, calls, completed, bulk, throwing,
          manager
vars == <<store, scheduler, renewalScheduler, calls, completed, bulk, throwing,
          manager>>

Response == [status |-> 200, body |-> "", ended |-> FALSE]

IdleCall ==
    [op |-> "idle", pc |-> "idle", id |-> NoId, webhook |-> None,
     userId |-> None, mode |-> "", signed |-> FALSE, posts |-> <<>>, statuses |-> <<>>,
     refreshes |-> 0, requests |-> 0, result |-> "none", ret |-> NoId,
     floating |-> "none", emitted |-> <<>>, res |-> Response,
     query |-> NoQuery, header |-> None, body |-> "", next |-> FALSE,
     persists |-> 0, saves |-> 0, deletes |-> 0, after |-> {}, endedAt |-> -1]

\* res.status(status) and res.end(body), or res.sendStatus(status): the
\* response is sent, after the events emitted so far.
End(c, status, body) ==
    [c EXCEPT !.res = [status |-> status, body |-> body, ended |-> TRUE],
              !.endedAt = Len(c.emitted)]
\* emit calls the listeners in the caller's stack: a listener that throws
\* makes emit throw, and the handler ends there.
Throws(events) == \E i \in 1..Len(events) : events[i].name \in throwing
\* The events that are emitted before the handler ends: up to the first one
\* with a listener that throws.
Emitted(events) ==
    IF Throws(events)
    THEN SubSeq(events, 1, CHOOSE i \in 1..Len(events) :
                              /\ events[i].name \in throwing
                              /\ \A j \in 1..(i - 1) : events[j].name \notin throwing)
    ELSE events
\* this.emit for each of the events, in their order.
Emit(c, events) == [c EXCEPT !.emitted = @ \o Emitted(events)]

\* The records an earlier run of the process may have left of an id: one
\* awaiting verification, one verified.
StoredRecords(id) ==
    {createWebhookPersistenceObject(id, "s1", 1),
     [createWebhookPersistenceObject(id, "s1", 1) EXCEPT
        !.subscribed = TRUE, !.subscriptionStart = Some(0),
        !.subscriptionEnd = Some(1000)]}

InitStores ==
    {s \in UNION {[D -> UNION {StoredRecords(i) : i \in D}] : D \in SUBSET {FirstId}} :
        \A i \in DOMAIN s : s[i].id = i}

\* unsubFromAll: its position, the ids of the records it listed, the
\* listener's webhookIds, whether the listener is registered and has resolved
\* finalPromise, the ids the listener has been called with, and the calls of
\* unsubscribePersistenceObject it made.
IdleBulk ==
    [pc |-> "idle", listed |-> {}, webhookIds |-> {}, listening |-> FALSE,
     resolved |-> FALSE, heard |-> {}, subs |-> [id \in {} |-> IdleCall]]

\* The runInterval a scheduler reports: never, or a number of milliseconds.
Infinity == -2
RunIntervals == {Infinity, 1000}

\* The manager as the constructor leaves it: the interval is set when a
\* scheduler is configured and its runInterval is not Infinity.  configured:
\* whether the constructor was given a scheduler; pc: the position of
\* destroy; runs: the positions of destroy at which the timer has called
\* run(); inFlight: the calls that awaited the hub's response when destroy was
\* called.
Constructed(configured, runInterval) ==
    [configured |-> configured, runInterval |-> runInterval,
     renewalInterval |-> configured /\ runInterval # Infinity,
     pc |-> "idle", runs |-> {}, inFlight |-> {},
     schedulerDestroys |-> 0, persistenceDestroys |-> 0]

Init ==
    /\ store \in InitStores
    /\ scheduler = {}
    /\ renewalScheduler = TRUE
    /\ calls = [p \in Calls |-> IdleCall]
    /\ completed = IdleCall
    /\ bulk = IdleBulk
    /\ throwing = {}
    /\ manager = Constructed(renewalScheduler, Infinity)

\* Calls start in the order of their numbers.
CanStart(p) ==
    /\ calls[p].op = "idle"
    /\ \A q \in Calls : q < p => calls[q].op # "idle"

Finished == {q \in Calls : calls[q].pc = "done"}

\* What stays of a finished call.
Summary(c) ==
    [IdleCall EXCEPT !.op = c.op, !.pc = "done", !.id = c.id, !.result = c.result,
                     !.ret = c.ret, !.persists = c.persists, !.deletes = c.deletes,
                     !.requests = c.requests, !.after = c.after]

\* The 'unsubscribed' listener of unsubFromAll, called with an id.
ListenerResolving(b, id) ==
    [b EXCEPT !.webhookIds = @ \ {id}, !.heard = @ \cup {id}, !.resolved = TRUE]
Listener(b, id) ==
    [b EXCEPT !.webhookIds = @ \ {id}, !.heard = @ \cup {id},
              !.resolved = @ \/ b.webhookIds \ {id} = {}]

\* emit calls the listeners at once: the listener of unsubFromAll, once
\* registered, hears every 'unsubscribed' event.
RECURSIVE Heard(_, _)
Heard(b, events) ==
    IF events = <<>> THEN b
    ELSE Heard(IF b.listening /\ Head(events).name = "unsubscribed"
               THEN Listener(b, Head(events).id) ELSE b,
               Tail(events))

\* unsubFromAll resumes from await Promise.all(promises) once every call has
\* settled, and from await finalPromise once the listener has resolved it.
\* Promises that are settled resume the function before any other handler
\* runs.
AwaitAll(b) ==
    IF b.pc = "Promise.all" /\ \A id \in DOMAIN b.subs : b.subs[id].pc = "done"
    THEN [b EXCEPT !.pc = "finalPromise"] ELSE b
AwaitFinal(b) ==
    IF b.pc = "finalPromise" /\ b.resolved THEN [b EXCEPT !.pc = "done"] ELSE b
Resumed(b) == AwaitFinal(AwaitAll(b))

Set(p, c) ==
    /\ calls' = [calls EXCEPT ![p] = IF c.pc = "done" THEN Summary(c) ELSE c]
    /\ completed' = IF c.pc = "done" THEN c ELSE IdleCall
    /\ bulk' = Resumed(Heard(bulk, SubSeq(c.emitted, Len(calls[p].emitted) + 1,
                                          Len(c.emitted))))
    /\ UNCHANGED <<throwing, manager>>

----------------------------------------------------------------------------
\* subscribeOrGetSubscription, up to its first await.
subscribeOrGetSubscription(p) ==
    /\ CanStart(p)
    /\ \E id \in WebhookIds, secret \in Secrets, lease \in LeaseOptions :
          Set(p, [IdleCall EXCEPT
                    !.op = "subscribe", !.pc = "getWebhookById", !.id = id,
                    !.webhook = Some(createWebhookPersistenceObject(id, secret, lease)),
                    !.userId = associatedUser(id), !.after = Finished])
    /\ UNCHANGED <<store, scheduler, renewalScheduler>>

\* Whether subscribeOrGetSubscription returns the old record's id.
AlwaysSubscribeAgain(oldWebhook) == FALSE
AlreadySubscribed(oldWebhook) == oldWebhook # None

\* The lookup resumes: return the old id, or go on to persistWebhook.
SubscribeLookedUp(p) ==
    /\ calls[p].op = "subscribe" /\ calls[p].pc = "getWebhookById"
    /\ LET c == calls[p]
           oldWebhook == getWebhookById(store, c.id)
       IN IF AlreadySubscribed(oldWebhook)
          THEN Set(p, [c EXCEPT !.pc = "done", !.result = "resolved",
                                !.ret = The(oldWebhook).id])
          ELSE Set(p, [c EXCEPT !.pc = "persistWebhook"])
    /\ UNCHANGED <<store, scheduler, renewalScheduler>>

\* changeSub up to its await of getOAuthToken.
changeSubFlipped(c, subscribe, userId) ==
    [c EXCEPT !.pc = "getOAuthToken",
              !.mode = IF subscribe THEN "unsubscribe" ELSE "subscribe",
              !.userId = userId]
changeSub(c, subscribe, userId) ==
    [c EXCEPT !.pc = "getOAuthToken",
              !.mode = IF subscribe THEN "subscribe" ELSE "unsubscribe",
              !.userId = userId]

\* persistWebhook resumes, changeSub starts.
SubscribePersisted(p) ==
    /\ calls[p].op = "subscribe" /\ calls[p].pc = "persistWebhook"
    /\ LET c == calls[p] IN
          /\ store' = persistWebhook(store, The(c.webhook))
          /\ Set(p, changeSub([c EXCEPT !.persists = @ + 1], TRUE, c.userId))
    /\ UNCHANGED <<scheduler, renewalScheduler>>

\* The request got.post sends: the hub parameters and the Authorization token.
HubRequest(c, token) ==
    [token |-> token, mode |-> c.mode, callback |-> The(c.webhook).id,
     topic |-> The(c.webhook).href, lease_seconds |-> The(c.webhook).leaseSeconds,
     secret |-> The(c.webhook).secret]

\* getOAuthToken or refreshOAuthToken resumes and doHubRequest posts.
TokenResolved(p) ==
    /\ calls[p].pc \in {"getOAuthToken", "refreshOAuthToken"}
    /\ LET c == calls[p] IN
          IF c.pc = "getOAuthToken"
          THEN Set(p, [c EXCEPT !.pc = "post", !.requests = @ + 1,
                         !.posts = Append(@, HubRequest(c, getOAuthToken(c.userId)))])
          ELSE Set(p, [c EXCEPT !.pc = "retry", !.refreshes = @ + 1, !.requests = @ + 1,
                         !.posts = Append(@, HubRequest(c,
                                      refreshOAuthToken(c.posts[Len(c.posts)].token)))])
    /\ UNCHANGED <<store, scheduler, renewalScheduler>>

\* The code of the caller that runs once changeSub has settled.  unsubscribe
\* does not await unsubscribePersistenceObject: its own promise has resolved
\* by then, and the outcome of the hub request is left floating.
AfterChangeSub(c, result) ==
    CASE c.op = "subscribe" ->
           [c EXCEPT !.pc = "done", !.result = result,
                     !.ret = IF result = "resolved" THEN The(c.webhook).id ELSE NoId]
      [] c.op = "unsubscribe" -> [c EXCEPT !.pc = "done", !.floating = result]
      [] OTHER -> [c EXCEPT !.pc = "done", !.result = result]

\* unsubscribePersistenceObject after changeSub: removeFromScheduler.
removeFromScheduler(c, d) ==
    IF d.op = "unsubscribe" /\ d.pc = "done" /\ d.floating = "resolved" /\ renewalScheduler
    THEN scheduler \ {The(c.webhook).id}
    ELSE scheduler

\* The status for which doHubRequest refreshes the token and posts again.
IsRetryStatus(statusCode) == statusCode = 401

\* doHubRequest once got.post has settled with the hub's answer.
doHubRequestLenient(c, statusCode) ==
    AfterChangeSub([c EXCEPT !.statuses = Append(@, statusCode)], "resolved")
doHubRequest(c, statusCode) ==
    LET d == [c EXCEPT !.statuses = Append(@, statusCode)] IN
    IF ~gotResolves(statusCode)
    THEN AfterChangeSub(d, "HTTPError")
    ELSE IF Is2xx(statusCode)
    THEN AfterChangeSub(d, "resolved")
    ELSE IF c.pc = "post" /\ IsRetryStatus(statusCode)
    THEN [d EXCEPT !.pc = "refreshOAuthToken"]
    ELSE AfterChangeSub(d, "HubError")

\* got.post settles; with retry > 0 got itself would post again first.
HubResponded(p) ==
    /\ calls[p].pc \in {"post", "retry"}
    /\ \E statusCode \in HubStatuses :
          LET c == calls[p] IN
          IF statusCode \in RetriedStatuses /\ Len(c.statuses) < retry
          THEN /\ Set(p, [c EXCEPT !.statuses = Append(@, statusCode),
                                   !.requests = @ + 1,
                                   !.posts = Append(@, c.posts[Len(c.posts)])])
               /\ UNCHANGED scheduler
          ELSE /\ Set(p, doHubRequest(c, statusCode))
               /\ scheduler' = removeFromScheduler(c, doHubRequest(c, statusCode))
    /\ UNCHANGED <<store, renewalScheduler>>

----------------------------------------------------------------------------
\* unsubscribe(webhookId) and resubscribe(webhookId), up to their await.
unsubscribe(p) ==
    /\ CanStart(p)
    /\ \E webhookId \in WebhookIds :
          Set(p, [IdleCall EXCEPT !.op = "unsubscribe", !.pc = "getWebhookById",
                                  !.id = webhookId])
    /\ UNCHANGED <<store, scheduler, renewalScheduler>>

resubscribe(p) ==
    /\ CanStart(p)
    /\ \E webhookId \in WebhookIds :
          Set(p, [IdleCall EXCEPT !.op = "resubscribe", !.pc = "getWebhookById",
                                  !.id = webhookId])
    /\ UNCHANGED <<store, scheduler, renewalScheduler>>

\* The Error unsubscribe and resubscribe throw for an id without a record.
WebhookFoundAnyway == "resolved"
WebhookNotFound == "NotFound"

\* The lookup resumes: changeSub for a record found, an Error otherwise.
\* unsubscribe returns as soon as unsubscribePersistenceObject has suspended.
ChangeLookedUpDeleting(p) ==
    /\ calls[p].op \in {"unsubscribe", "resubscribe"} /\ calls[p].pc = "getWebhookById"
    /\ LET c == calls[p]
           webhook == getWebhookById(store, c.id)
       IN IF webhook # None
          THEN /\ Set(p, changeSub([c EXCEPT !.webhook = webhook,
                                     !.deletes = IF c.op = "unsubscribe" THEN @ + 1 ELSE @,
                                     !.result = IF c.op = "unsubscribe"
                                                THEN "resolved" ELSE @],
                                  c.op = "resubscribe", None))
               /\ store' = IF c.op = "unsubscribe"
                           THEN deleteWebhook(store, c.id) ELSE store
          ELSE /\ Set(p, [c EXCEPT !.pc = "done", !.result = WebhookNotFound])
               /\ store' = store
    /\ UNCHANGED <<scheduler, renewalScheduler>>
ChangeLookedUp(p) ==
    /\ calls[p].op \in {"unsubscribe", "resubscribe"} /\ calls[p].pc = "getWebhookById"
    /\ LET c == calls[p]
           webhook == getWebhookById(store, c.id)
       IN IF webhook # None
          THEN Set(p, changeSub([c EXCEPT !.webhook = webhook,
                                   !.result = IF c.op = "unsubscribe"
                                              THEN "resolved" ELSE @],
                                c.op = "resubscribe", None))
          ELSE Set(p, [c EXCEPT !.pc = "done", !.result = WebhookNotFound])
    /\ UNCHANGED <<store, scheduler, renewalScheduler>>

----------------------------------------------------------------------------
\* The verification middleware and the POST handler.

\* A push arrives; without X-Hub-Signature it is answered 400 at once.  The
\* header's value and the body are drawn when the middleware compares them.
PostRequest(p) ==
    /\ CanStart(p)
    /\ \E webhookId \in WebhookIds, signed \in BOOLEAN :
          LET c == [IdleCall EXCEPT !.op = "POST", !.id = webhookId, !.signed = signed] IN
          IF signed
          THEN Set(p, [c EXCEPT !.pc = "verify"])
          ELSE Set(p, End([c EXCEPT !.pc = "done"], 400, "Bad Request"))
    /\ UNCHANGED <<store, scheduler, renewalScheduler>>

\* The comparison of the digest with the header's.
AnyDigestMatches(secret, body, header) == TRUE
DigestMatches(secret, body, header) == Some(Hmac(secret, body)) = SignatureOf(header)

\* The middleware's lookup resumes: 404, 400, or next() and the POST handler
\* up to its own lookup.
PostVerified(p) ==
    /\ calls[p].op = "POST" /\ calls[p].pc = "verify"
    /\ LET webhook == getWebhookById(store, calls[p].id) IN
       IF webhook = None
       THEN Set(p, End([calls[p] EXCEPT !.pc = "done"], 404, "Not Found"))
       ELSE \E header \in Headers \ {None}, body \in Bodies :
          LET c == [calls[p] EXCEPT !.header = header, !.body = body] IN
          IF DigestMatches(The(webhook).secret, c.body, c.header)
          THEN Set(p, [c EXCEPT !.pc = "getWebhookById", !.next = TRUE,
                                !.webhook = webhook])
          ELSE Set(p, End([c EXCEPT !.pc = "done", !.webhook = webhook],
                          400, "Bad Request"))
    /\ UNCHANGED <<store, scheduler, renewalScheduler>>

\* The payload the handler builds from the body.
WebhookPayload(webhookId, body) == <<TypeOf(webhookId), body, webhookId[2]>>

\* The events of an accepted push, in the order they are emitted.
PushEventsSpecificFirst(webhookId, payload) ==
    <<Event(SpecificEventName(payload[1]), webhookId, payload),
      Event("message", webhookId, payload)>>
PushEvents(webhookId, payload) ==
    <<Event("message", webhookId, payload),
      Event(SpecificEventName(payload[1]), webhookId, payload)>>

\* The handler's lookup resumes: 200 and the events, or a 404 never ended.
PostLookedUp(p) ==
    /\ calls[p].op = "POST" /\ calls[p].pc = "getWebhookById"
    /\ LET c == calls[p]
           webhook == getWebhookById(store, c.id)
       IN IF webhook # None
          THEN Set(p, Emit(End([c EXCEPT !.pc = "done"], 200, ""),
                           PushEvents(c.id, WebhookPayload(c.id, c.body))))
          ELSE Set(p, [c EXCEPT !.pc = "done", !.res.status = 404])
    /\ UNCHANGED <<store, scheduler, renewalScheduler>>

----------------------------------------------------------------------------
\* The GET handler.

\* A verification request arrives; without hub.topic the handler throws.
GetRequest(p) ==
    /\ CanStart(p)
    /\ \E topic \in {None} \cup {Some(x) : x \in WebhookIds} :
          LET c == [IdleCall EXCEPT !.op = "GET"] IN
          IF topic = None
          THEN Set(p, [c EXCEPT !.pc = "done", !.result = "Error"])
          ELSE Set(p, [c EXCEPT !.pc = "getWebhookById", !.id = The(topic)])
    /\ UNCHANGED <<store, scheduler, renewalScheduler>>

\* The body res.end(hub.challenge) sends.
NoChallengeBody(challenge) == ""
ChallengeBody(challenge) == IF challenge = None THEN "" ELSE The(challenge)

\* The lease computation of the confirm branch: start is what new Date()
\* read and now what the later Date.now() reads.
subscriptionEnd(webhook, lease, start, now) ==
    IF TruthyChars(lease)
    THEN DatePlusSeconds(start, parseInt(The(lease)))
    ELSE DatePlusSeconds(now, webhook.leaseSeconds)

\* The record as the confirm branch changes it.
ConfirmedWithoutEnd(webhook, lease, start, now) ==
    [webhook EXCEPT !.subscriptionStart = Some(start), !.subscribed = TRUE]
ConfirmedButPending(webhook, lease, start, now) ==
    [webhook EXCEPT !.subscriptionStart = Some(start),
                    !.subscriptionEnd = Some(subscriptionEnd(webhook, lease, start, now))]
Confirmed(webhook, lease, start, now) ==
    [webhook EXCEPT !.subscriptionStart = Some(start),
                    !.subscriptionEnd = Some(subscriptionEnd(webhook, lease, start, now)),
                    !.subscribed = TRUE]

IsDenial(mode) == ~Truthy(mode) \/ mode = Some("denied")

\* The answer to a GET for an unknown webhook.
UnknownWebhookAccepted == [status |-> 200, body |-> "", ended |-> TRUE]
UnknownWebhook == [status |-> 404, body |-> "", ended |-> TRUE]

\* The lookup resumes: 404, or one of the three branches up to its await.
\* A query parameter is drawn when the handler's result first depends on it.
GetLookedUp(p) ==
    /\ calls[p].op = "GET" /\ calls[p].pc = "getWebhookById"
    /\ LET c == calls[p]
           webhook == getWebhookById(store, c.id)
       IN IF webhook = None
          THEN Set(p, [c EXCEPT !.pc = "done", !.res = UnknownWebhook,
                                !.endedAt = Len(c.emitted)])
          ELSE \E mode \in HubModes :
                 IF IsDenial(mode)
                 THEN Set(p, End([c EXCEPT !.pc = "denied", !.webhook = webhook,
                                               !.query.mode = mode], 200, ""))
                 ELSE IF mode = Some("unsubscribe")
                 THEN Set(p, [c EXCEPT !.pc = "unsubscribe", !.webhook = webhook,
                                !.query.mode = mode])
                 ELSE Set(p, [c EXCEPT !.pc = "saveWebhook", !.webhook = webhook,
                                !.query.mode = mode])
    /\ UNCHANGED <<store, scheduler, renewalScheduler>>

\* The reason a SubscriptionDeniedError carries.
NoDenialReason(reason) == "No reason given"
DenialReason(reason) == IF Truthy(reason) THEN The(reason) ELSE "No reason given"

\* deleteWebhook of the deny branch resumes: the 'error' event.
GetDenied(p) ==
    /\ calls[p].op = "GET" /\ calls[p].pc = "denied"
    /\ \E reason \in HubReasons :
       LET c == [calls[p] EXCEPT !.query.reason = reason] IN
          /\ store' = deleteWebhook(store, c.id)
          /\ Set(p, Emit([c EXCEPT !.pc = "done", !.deletes = @ + 1],
                          <<Event("error", The(c.webhook).id,
                                  <<DenialReason(c.query.reason)>>)>>))
    /\ UNCHANGED <<scheduler, renewalScheduler>>

\* deleteWebhook of the unsubscribe branch resumes: the challenge, 'unsubscribed'.
GetUnsubscribed(p) ==
    /\ calls[p].op = "GET" /\ calls[p].pc = "unsubscribe"
    /\ \E challenge \in HubChallenges :
       LET c == [calls[p] EXCEPT !.query.challenge = challenge] IN
          /\ store' = deleteWebhook(store, The(c.webhook).id)
          /\ Set(p, Emit(End([c EXCEPT !.pc = "done", !.deletes = @ + 1],
                              200, ChallengeBody(c.query.challenge)),
                          <<Event("unsubscribed", The(c.webhook).id, <<>>)>>))
    /\ UNCHANGED <<scheduler, renewalScheduler>>

\* addToScheduler of the confirm branch, when a scheduler is configured.
addToScheduler(webhook) ==
    IF renewalScheduler THEN scheduler \cup {webhook.id} ELSE scheduler

\* saveWebhook of the confirm branch resumes: 'subscribed', addToScheduler.
\* The record was changed and the challenge sent before the await; nothing
\* else reads them until here, where their values are drawn.
GetConfirmed(p) ==
    /\ calls[p].op = "GET" /\ calls[p].pc = "saveWebhook"
    /\ \E lease \in HubLeases, challenge \in HubChallenges, start \in Clock :
       \E drift \in IF TruthyChars(lease) THEN {0} ELSE ClockDrift :
       LET c == End([calls[p] EXCEPT
                       !.webhook = Some(Confirmed(The(@), lease, start, start + drift)),
                       !.query.lease_seconds = lease, !.query.challenge = challenge],
                    200, ChallengeBody(challenge))
       IN /\ store' = saveWebhook(store, The(c.webhook))
          /\ Set(p, Emit([c EXCEPT !.pc = "done", !.saves = @ + 1],
                          <<Event("subscribed", c.id, <<>>)>>))
          /\ scheduler' = IF Throws(<<Event("subscribed", c.id, <<>>)>>)
                           THEN scheduler ELSE addToScheduler(The(c.webhook))
    /\ UNCHANGED renewalScheduler

----------------------------------------------------------------------------
Next ==
    \E p \in Calls :
        \/ subscribeOrGetSubscription(p)
        \/ SubscribeLookedUp(p)
        \/ SubscribePersisted(p)
        \/ TokenResolved(p)
        \/ HubResponded(p)
        \/ unsubscribe(p)
        \/ resubscribe(p)
        \/ ChangeLookedUp(p)
        \/ PostRequest(p)
        \/ PostVerified(p)
        \/ PostLookedUp(p)
        \/ GetRequest(p)
        \/ GetLookedUp(p)
        \/ GetDenied(p)
        \/ GetUnsubscribed(p)
        \/ GetConfirmed(p)

Spec == Init /\ [][Next]_vars

----------------------------------------------------------------------------
\* unsubFromAll.

\* The stores and the scheduler that init() leaves: no record, one or two, all
\* verified, and every one registered.
VerifiedRecord(id) ==
    [createWebhookPersistenceObject(id, "s1", 1) EXCEPT
       !.subscribed = TRUE, !.subscriptionStart = Some(0), !.subscriptionEnd = Some(1000)]
InitStoresAll ==
    {[id \in D |-> VerifiedRecord(id)] : D \in {{}, {FirstId}, WebhookIds}}

InitAll ==
    /\ store \in InitStoresAll
    /\ scheduler = DOMAIN store
    /\ renewalScheduler = TRUE
    /\ calls = [p \in Calls |-> IdleCall]
    /\ completed = IdleCall
    /\ bulk = IdleBulk
    /\ throwing = {}
    /\ manager = Constructed(renewalScheduler, Infinity)

\* unsubFromAll up to its await of getAllWebhooks.
unsubFromAll ==
    /\ bulk.pc = "idle"
    /\ bulk' = [bulk EXCEPT !.pc = "getAllWebhooks"]
    /\ completed' = IdleCall
    /\ UNCHANGED <<store, scheduler, renewalScheduler, calls, throwing, manager>>

\* getAllWebhooks resumes: the listener is registered and
\* unsubscribePersistenceObject is called for every record, each call running
\* up to its await in changeSub; unsubFromAll awaits Promise.all, which is
\* resolved already when there is no record.
AllListed ==
    /\ bulk.pc = "getAllWebhooks"
    /\ bulk' = Resumed([bulk EXCEPT
                  !.pc = "Promise.all", !.listed = DOMAIN store,
                  !.webhookIds = DOMAIN store, !.listening = TRUE,
                  !.subs = [id \in DOMAIN store |->
                              changeSub([IdleCall EXCEPT
                                           !.op = "unsubscribePersistenceObject",
                                           !.id = id, !.webhook = Some(store[id])],
                                        FALSE, None)]])
    /\ completed' = IdleCall
    /\ UNCHANGED <<store, scheduler, renewalScheduler, calls, throwing, manager>>

\* getOAuthToken or refreshOAuthToken of one of the calls resumes.
SubTokenResolved(id) ==
    /\ id \in DOMAIN bulk.subs
    /\ bulk.subs[id].pc \in {"getOAuthToken", "refreshOAuthToken"}
    /\ LET c == bulk.subs[id]
           d == IF c.pc = "getOAuthToken"
                THEN [c EXCEPT !.pc = "post", !.requests = @ + 1,
                        !.posts = Append(@, HubRequest(c, getOAuthToken(c.userId)))]
                ELSE [c EXCEPT !.pc = "retry", !.refreshes = @ + 1, !.requests = @ + 1,
                        !.posts = Append(@, HubRequest(c,
                                     refreshOAuthToken(c.posts[Len(c.posts)].token)))]
       IN bulk' = [bulk EXCEPT !.subs[id] = d]
    /\ completed' = IdleCall
    /\ UNCHANGED <<store, scheduler, renewalScheduler, calls, throwing, manager>>

\* got.post of one of the calls settles: the call deregisters the record from
\* the scheduler, or its error is logged by the catch.
SubHubResponded(id) ==
    /\ id \in DOMAIN bulk.subs
    /\ bulk.subs[id].pc \in {"post", "retry"}
    /\ \E statusCode \in HubStatuses :
          LET c == bulk.subs[id]
              d == doHubRequest(c, statusCode)
          IN IF statusCode \in RetriedStatuses /\ Len(c.statuses) < retry
             THEN /\ bulk' = [bulk EXCEPT !.subs[id] =
                                [c EXCEPT !.statuses = Append(@, statusCode),
                                          !.requests = @ + 1,
                                          !.posts = Append(@, c.posts[Len(c.posts)])]]
                  /\ UNCHANGED scheduler
             ELSE /\ bulk' = Resumed([bulk EXCEPT !.subs[id] =
                                        IF d.pc = "done" THEN Summary(d) ELSE d])
                  /\ scheduler' = IF d.pc = "done" /\ d.result = "resolved"
                                     /\ renewalScheduler
                                  THEN scheduler \ {id} ELSE scheduler
    /\ completed' = IdleCall
    /\ UNCHANGED <<store, renewalScheduler, calls, throwing, manager>>

\* unsubFromAll with the verification requests of the hub: unsubFromAll is one
\* of the calls of a behaviour, the requests are the others.
Callbacks == 1..(MaxCalls - 1)
NextAll ==
    \/ unsubFromAll
    \/ AllListed
    \/ \E id \in WebhookIds : SubTokenResolved(id)
    \/ \E id \in WebhookIds : SubHubResponded(id)
    \/ \E p \in Callbacks :
          \/ GetRequest(p)
          \/ GetLookedUp(p)
          \/ GetDenied(p)
          \/ GetUnsubscribed(p)
          \/ GetConfirmed(p)

SpecAll == InitAll /\ [][NextAll]_vars

----------------------------------------------------------------------------
\* The callbacks with listeners that throw.

\* The listeners the application has registered: none of them throws, or the
\* ones of one event do.
ThrowingListeners == {{}, {"message"}, {"subscribed"}, {"error"}}

InitListeners ==
    /\ store \in InitStores
    /\ scheduler = {}
    /\ renewalScheduler = TRUE
    /\ calls = [p \in Calls |-> IdleCall]
    /\ completed = IdleCall
    /\ bulk = IdleBulk
    /\ throwing \in ThrowingListeners
    /\ manager = Constructed(renewalScheduler, Infinity)

NextListeners ==
    \E p \in Calls :
        \/ PostRequest(p)
        \/ PostVerified(p)
        \/ PostLookedUp(p)
        \/ GetRequest(p)
        \/ GetLookedUp(p)
        \/ GetDenied(p)
        \/ GetUnsubscribed(p)
        \/ GetConfirmed(p)

SpecListeners == InitListeners /\ [][NextListeners]_vars

----------------------------------------------------------------------------
\* The renewal timer and destroy.

InitDestroy ==
    /\ store \in InitStores
    /\ scheduler = {}
    /\ renewalScheduler \in BOOLEAN
    /\ calls = [p \in Calls |-> IdleCall]
    /\ completed = IdleCall
    /\ bulk = IdleBulk
    /\ throwing = {}
    /\ manager \in {Constructed(renewalScheduler, runInterval) :
                      runInterval \in RunIntervals}

\* The callback of setInterval: run() of the scheduler.
TimerFires ==
    /\ manager.renewalInterval
    /\ manager' = [manager EXCEPT !.runs = @ \cup {manager.pc}]
    /\ completed' = IdleCall
    /\ UNCHANGED <<store, scheduler, renewalScheduler, calls, bulk, throwing>>

\* clearInterval(this.renewalInterval) of destroy, when the interval is set.
intervalKept(m) == m
clearInterval(m) == [m EXCEPT !.renewalInterval = FALSE]

\* destroy up to its first await: of renewalScheduler.destroy() when a
\* scheduler is configured, of persistenceManager.destroy() otherwise.
destroy ==
    /\ manager.pc = "idle"
    /\ manager' =
          [clearInterval(manager) EXCEPT
             !.inFlight = {p \in Calls : calls[p].pc \in {"post", "retry"}},
             !.pc = IF renewalScheduler THEN "renewalScheduler.destroy"
                    ELSE "persistenceManager.destroy",
             !.schedulerDestroys = IF renewalScheduler THEN @ + 1 ELSE @,
             !.persistenceDestroys = IF renewalScheduler THEN @ ELSE @ + 1]
    /\ completed' = IdleCall
    /\ UNCHANGED <<store, scheduler, renewalScheduler, calls, bulk, throwing>>

\* renewalScheduler.destroy() resumes: config.renewalScheduler is unset and
\* persistenceManager.destroy() is called.
SchedulerDestroyed ==
    /\ manager.pc = "renewalScheduler.destroy"
    /\ renewalScheduler' = FALSE
    /\ manager' = [manager EXCEPT !.pc = "persistenceManager.destroy",
                                  !.persistenceDestroys = @ + 1]
    /\ completed' = IdleCall
    /\ UNCHANGED <<store, scheduler, calls, bulk, throwing>>

\* persistenceManager.destroy() resumes and destroy returns.
PersistenceDestroyed ==
    /\ manager.pc = "persistenceManager.destroy"
    /\ manager' = [manager EXCEPT !.pc = "done"]
    /\ completed' = IdleCall
    /\ UNCHANGED <<store, scheduler, renewalScheduler, calls, bulk, throwing>>

\* destroy is one of the calls; the others are the operations that send a
\* hub request for a stored record.
NextDestroy ==
    \/ TimerFires
    \/ destroy
    \/ SchedulerDestroyed
    \/ PersistenceDestroyed
    \/ \E p \in Callbacks :
          \/ unsubscribe(p)
          \/ resubscribe(p)
          \/ ChangeLookedUp(p)
          \/ TokenResolved(p)
          \/ HubResponded(p)

SpecDestroy == InitDestroy /\ [][NextDestroy]_vars

----------------------------------------------------------------------------
\* The properties.

HubOps == {"subscribe", "unsubscribe", "resubscribe"}

\* How the hub request of a call ended: unsubscribe leaves it floating.
Outcome(c) == IF c.op = "unsubscribe" THEN c.floating ELSE c.result

\* No callback has deleted the record of id.
NoDeletion(id) == \A r \in Calls : calls[r].id = id => calls[r].deletes = 0

\* The subscribe calls that had returned an id when the completed call began.
ReturnedBefore(c) ==
    {q \in c.after : calls[q].op = "subscribe" /\ calls[q].id = c.id
                     /\ calls[q].result = "resolved"}

\* C1: a subscribe call that starts after a subscribe call with the same type
\* and parameters has returned, the record not having been deleted since,
\* returns the same id, inserts nothing and sends the hub nothing; the two
\* calls together have sent the hub one request if the first inserted the
\* record, and none otherwise.
C1_IdempotentSubscribe ==
    \A q \in Calls :
        (completed.op = "subscribe" /\ q \in ReturnedBefore(completed)
         /\ NoDeletion(completed.id))
        => /\ completed.result = "resolved"
           /\ completed.ret = calls[q].ret
           /\ completed.ret = completed.id
           /\ completed.persists = 0
           /\ completed.posts = <<>>
           /\ completed.requests + calls[q].requests = calls[q].persists

C1_Witness ==
    \E q \in Calls :
        /\ completed.op = "subscribe" /\ q \in ReturnedBefore(completed)
        /\ NoDeletion(completed.id)
        /\ calls[q].persists = 1

\* C2: the subscribe calls for one id, overlapping or not, insert its record at
\* most once and send the hub at most one request, the record not having been
\* deleted in between.
SubscribeCalls(id) == {p \in Calls : calls[p].op = "subscribe" /\ calls[p].id = id}
C2_OneInsertPerId ==
    \A id \in WebhookIds :
        NoDeletion(id)
        => /\ Cardinality({p \in SubscribeCalls(id) : calls[p].persists > 0}) <= 1
           /\ Cardinality({p \in SubscribeCalls(id) : calls[p].requests > 0}) <= 1

\* C3: a hub request answered 401 is followed by one call of the token refresh
\* and one more request, which carries the refreshed token and whose answer
\* decides the operation.
C3_RetryOnceOn401 ==
    (completed.op \in HubOps /\ completed.statuses # <<>> /\ completed.statuses[1] = 401)
    => /\ completed.refreshes = 1
       /\ Len(completed.posts) = 2
       /\ Len(completed.statuses) = 2
       /\ completed.posts[2].token = refreshOAuthToken(completed.posts[1].token)
       /\ (Outcome(completed) = "resolved") = Is2xx(completed.statuses[2])

\* C4: a hub request answered with a status that is neither 2xx nor 401 fails
\* the operation after that one request, without a token refresh; no
\* operation sends more than two requests.
C4_FailWithoutRetry ==
    /\ \A p \in Calls : Len(calls[p].posts) <= 2
    /\ Len(completed.posts) <= 2
    /\ (completed.op \in HubOps /\ completed.statuses # <<>>
        /\ ~Is2xx(completed.statuses[1]) /\ completed.statuses[1] # 401)
       => /\ Outcome(completed) \notin {"none", "resolved"}
          /\ Len(completed.posts) = 1
          /\ completed.statuses = <<completed.statuses[1]>>
          /\ completed.refreshes = 0

C4_Witness ==
    /\ completed.op \in HubOps
    /\ completed.statuses = <<500>>
    /\ Outcome(completed) = "HTTPError"

\* C5: a push is handed on by the gate only if it is signed, its id has a
\* record and the digest of its body under the record's secret is the
\* header's; an unsigned push and a push with another digest are answered
\* 400; only a push handed on emits events; no step of a push changes the
\* store.
PassedGate(c) ==
    /\ c.signed /\ c.header # None /\ c.webhook # None
    /\ The(c.webhook).id = c.id
    /\ Some(Hmac(The(c.webhook).secret, c.body)) = SignatureOf(c.header)
Rejected400(c) ==
    /\ c.res.status = 400 /\ c.res.ended /\ c.emitted = <<>> /\ ~c.next
C5_Gate ==
    /\ \A p \in Calls : (calls[p].op = "POST" /\ calls[p].next) => PassedGate(calls[p])
    /\ completed.op = "POST"
       => /\ completed.next => PassedGate(completed)
          /\ completed.emitted # <<>> => completed.next
          /\ ~completed.signed => Rejected400(completed)
          /\ (completed.signed /\ completed.webhook # None /\ ~PassedGate(completed))
             => Rejected400(completed)
C5_SignatureGate ==
    [][/\ C5_Gate'
       /\ (\E p \in Calls : calls'[p] # calls[p] /\ calls'[p].op = "POST")
          => store' = store]_vars

C5_Witness ==
    /\ completed.op = "POST" /\ completed.next /\ completed.emitted # <<>>
    /\ \E q \in Calls : calls[q].op = "POST" /\ calls[q].pc = "done" /\ ~calls[q].signed

\* C6 as claimed: a push or a verification request whose id has no record is
\* answered 404 and emits nothing, signed or not.
Unknown(c) ==
    /\ c.op \in {"GET", "POST"} /\ c.id # NoId
    /\ c.webhook = None /\ c.id \notin DOMAIN store
Answered404(c) == c.res.status = 404 /\ c.res.ended /\ c.emitted = <<>>
C6_UnknownId404 == Unknown(completed) => Answered404(completed)

\* C6: a verification request, and a push that carries a signature header,
\* whose id has no record is answered 404; a push without the header is
\* answered 400; neither emits an event, and no step of such a request
\* changes the store or the scheduler.
C6_Answer ==
    Unknown(completed)
    => IF completed.op = "POST" /\ ~completed.signed
       THEN Rejected400(completed)
       ELSE Answered404(completed)
C6_UnknownIdSigned404 ==
    [][/\ C6_Answer'
       /\ (Unknown(completed)'
           \/ \E p \in Calls : calls[p].op = "idle" /\ calls'[p].op \in {"GET", "POST"})
          => (store' = store /\ scheduler' = scheduler)]_vars

C6_Witness ==
    /\ Unknown(completed) /\ completed.op = "POST" /\ completed.signed
    /\ Answered404(completed)
    /\ \E q \in Calls : /\ calls[q].op = "GET" /\ calls[q].pc = "done"
                        /\ calls[q].id = completed.id /\ calls[q].result = "none"
                        /\ completed.id # FirstId

\* C7: a verification request with hub.mode absent or 'denied' for an id with
\* a record leaves the store without that record and emits one event, an
\* 'error' for that id with hub.reason, or with the default text without it.
Denied(c) ==
    /\ c.op = "GET" /\ c.webhook # None
    /\ (c.query.mode = None \/ c.query.mode = Some("denied"))
C7_DenialDeletes ==
    Denied(completed)
    => /\ completed.id \notin DOMAIN store
       /\ completed.deletes = 1
       /\ Len(completed.emitted) = 1
       /\ completed.emitted[1].name = "error"
       /\ completed.emitted[1].id = completed.id
       /\ completed.emitted[1].info =
            <<IF completed.query.reason = None THEN "No reason given"
              ELSE The(completed.query.reason)>>

C7_Witness ==
    /\ Denied(completed) /\ completed.query.mode = Some("denied")
    /\ completed.query.reason # None
    /\ \E q \in Calls : calls[q].op = "subscribe" /\ calls[q].persists = 1
                        /\ calls[q].id = completed.id

\* C8: a verification request with any other mode than 'unsubscribe' for an
\* id with a record leaves the record stored with subscribed = TRUE, answers
\* 200 with the challenge, emits one 'subscribed' for the id, registers the id
\* with the scheduler, and writes the store with one save and no insert.
Confirm(c) ==
    /\ c.op = "GET" /\ c.webhook # None
    /\ c.query.mode \notin {None, Some("denied"), Some("unsubscribe")}
C8_ConfirmSubscribes ==
    Confirm(completed)
    => /\ completed.id \in DOMAIN store
       /\ store[completed.id].subscribed
       /\ completed.res =
            [status |-> 200, body |-> The(completed.query.challenge), ended |-> TRUE]
       /\ completed.emitted = <<Event("subscribed", completed.id, <<>>)>>
       /\ renewalScheduler => completed.id \in scheduler
       /\ completed.saves = 1 /\ completed.persists = 0

C8_Witness ==
    /\ Confirm(completed) /\ completed.id \in scheduler
    /\ store[completed.id].subscribed
    /\ \E q \in Calls : calls[q].op = "subscribe" /\ calls[q].persists = 1
                        /\ calls[q].id = completed.id

\* C9: after a confirmation the stored subscriptionEnd is subscriptionStart
\* plus the echoed lease seconds, or plus the record's leaseSeconds when no
\* lease was echoed.
C9_LeaseFromStart ==
    Confirm(completed)
    => LET w == The(completed.webhook)
           lease == completed.query.lease_seconds
       IN /\ store[completed.id] = w
          /\ (lease # None /\ parseInt(The(lease)) # NaN)
             => The(w.subscriptionEnd) =
                  The(w.subscriptionStart) + parseInt(The(lease)) * 1000
          /\ lease = None
             => The(w.subscriptionEnd) = The(w.subscriptionStart) + w.leaseSeconds * 1000

\* C10: a verification request with hub.mode 'unsubscribe' for an id with a
\* record leaves the store without that record, answers 200 with the
\* challenge and emits one 'unsubscribed' for the id; after a denial the store
\* holds no record of the id either.
Unsubscribed(c) ==
    /\ c.op = "GET" /\ c.webhook # None /\ c.query.mode = Some("unsubscribe")
C10_UnsubscribeDeletes ==
    /\ Unsubscribed(completed)
       => /\ completed.id \notin DOMAIN store
          /\ completed.deletes = 1
          /\ completed.res =
               [status |-> 200, body |-> The(completed.query.challenge), ended |-> TRUE]
          /\ completed.emitted = <<Event("unsubscribed", completed.id, <<>>)>>
    /\ Denied(completed) => completed.id \notin DOMAIN store

C10_Witness ==
    /\ Unsubscribed(completed) /\ completed.id \notin DOMAIN store
    /\ The(completed.webhook).subscribed

\* C11 as claimed: when the hub request of a subscribe, unsubscribe or
\* resubscribe call fails, the promise the call returned is rejected with the
\* hub's error.
HubFailed(c) ==
    /\ c.op \in HubOps /\ c.statuses # <<>>
    /\ c.statuses[Len(c.statuses)] \div 100 # 2
C11_HubFailureRejects ==
    HubFailed(completed)
    => /\ completed.result \notin {"none", "resolved"}
       /\ completed.result = Outcome(completed)

\* C12: unsubscribe and resubscribe for an id without a record fail with the
\* not-found Error, never call changeSub (no access token is resolved, no
\* request is sent to the hub), and no step of them changes the store or the
\* scheduler.
Absent(c) == c.op \in {"unsubscribe", "resubscribe"} /\ c.pc = "done" /\ c.webhook = None
C12_Answer ==
    Absent(completed)
    => /\ completed.result = "NotFound"
       /\ completed.mode = "" /\ completed.userId = None
       /\ completed.posts = <<>> /\ completed.requests = 0 /\ completed.refreshes = 0
       /\ completed.floating = "none"
C12_NotFound ==
    [][/\ C12_Answer'
       /\ (Absent(completed)'
           \/ \E p \in Calls : /\ calls[p].op = "idle"
                               /\ calls'[p].op \in {"unsubscribe", "resubscribe"})
          => (store' = store /\ scheduler' = scheduler)]_vars

C12_Witness ==
    /\ Absent(completed) /\ completed.op = "resubscribe"
    /\ completed.id \notin DOMAIN store
    /\ \E q \in Calls : /\ calls[q].op = "unsubscribe" /\ calls[q].result = "NotFound"
                        /\ calls[q].requests = 0

\* No verification request for id has been processed.
NoCallback(id) ==
    \A r \in Calls : ~(calls[r].op = "GET" /\ calls[r].id = id /\ calls[r].pc = "done")
\* The subscribe calls that have inserted a record of id.
Inserters(id) == {r \in SubscribeCalls(id) : calls[r].persists > 0}

\* C13: when the hub request of a subscribe call that inserted its record
\* fails, the call fails with the error and, no callback for the id having
\* been processed, the record is still stored with subscribed = FALSE; a
\* subscribe call for the same id that starts afterwards, the record not
\* having been deleted, returns the id, inserts nothing and sends nothing.
C13_PendingStays ==
    /\ (completed.op = "subscribe" /\ completed.persists = 1 /\ HubFailed(completed))
       => /\ completed.result \notin {"none", "resolved"}
          /\ completed.ret = NoId
          /\ NoCallback(completed.id)
             => /\ completed.id \in DOMAIN store
                /\ ~store[completed.id].subscribed
                /\ Cardinality(Inserters(completed.id)) <= 1
                   => store[completed.id] = The(completed.webhook)
    /\ \A q \in Calls :
          (/\ completed.op = "subscribe" /\ q \in completed.after
           /\ calls[q].op = "subscribe" /\ calls[q].id = completed.id
           /\ calls[q].persists = 1 /\ calls[q].result \notin {"none", "resolved"}
           /\ NoDeletion(completed.id))
          => /\ completed.result = "resolved" /\ completed.ret = completed.id
             /\ completed.persists = 0 /\ completed.requests = 0
             /\ completed.posts = <<>>

C13_Witness ==
    /\ completed.op = "subscribe" /\ completed.result = "resolved"
    /\ completed.id \in DOMAIN store /\ ~store[completed.id].subscribed
    /\ \E q \in completed.after :
          /\ calls[q].op = "subscribe" /\ calls[q].id = completed.id
          /\ calls[q].persists = 1 /\ calls[q].result = "HTTPError"

\* C14: no step of an unsubscribe call changes the store, and when the hub has
\* answered its request, accepting or rejecting, no callback for the id having
\* been processed, the record is still stored, as the call found it unless
\* overlapping subscribe calls have inserted it twice.
C14_Stays ==
    (/\ completed.op = "unsubscribe" /\ completed.webhook # None
     /\ NoCallback(completed.id))
    => /\ completed.floating # "none"
       /\ completed.deletes = 0
       /\ completed.id \in DOMAIN store
       /\ Cardinality(Inserters(completed.id)) <= 1
          => store[completed.id] = The(completed.webhook)
C14_UnsubscribeKeepsRecord ==
    [][/\ C14_Stays'
       /\ (\E p \in Calls : calls'[p] # calls[p] /\ calls'[p].op = "unsubscribe")
          => store' = store]_vars

C14_Witness ==
    /\ completed.op = "unsubscribe" /\ completed.floating = "HTTPError"
    /\ completed.id \in DOMAIN store
    /\ store[completed.id] = The(completed.webhook)
    /\ \E q \in Calls : calls[q].op = "subscribe" /\ calls[q].persists = 1
                        /\ calls[q].id = completed.id

\* C15: unsubFromAll has completed only if every call of
\* unsubscribePersistenceObject has settled and every id it listed has been
\* emitted with 'unsubscribed' since; it calls unsubscribePersistenceObject
\* for every record it listed, and each of these calls sends its request
\* whether or not another one fails.
C15_WaitsForConfirmations ==
    /\ bulk.pc \notin {"idle", "getAllWebhooks"} => DOMAIN bulk.subs = bulk.listed
    /\ bulk.webhookIds = bulk.listed \ bulk.heard
    /\ bulk.resolved => bulk.listed \subseteq bulk.heard
    /\ bulk.pc \in {"finalPromise", "done"}
       => \A id \in bulk.listed :
             bulk.subs[id].pc = "done" /\ bulk.subs[id].requests = 1
    /\ bulk.pc = "done"
       => /\ bulk.listed \subseteq bulk.heard
          /\ bulk.heard # {}

C15_Witness ==
    /\ bulk.pc = "done" /\ bulk.listed = {FirstId} /\ bulk.heard = {FirstId}
    /\ bulk.subs[FirstId].result = "HTTPError"
    /\ completed.op = "GET" /\ completed.query.mode = Some("unsubscribe")

\* C16 as claimed: a push that has passed the signature gate is answered 200
\* with an empty body, whatever is processed between the gate's lookup and the
\* handler's.
C16_PassedPushAnswered200 ==
    (completed.op = "POST" /\ completed.next)
    => completed.res = [status |-> 200, body |-> "", ended |-> TRUE]

\* C17: a push answered 200 emits two events and no more, first 'message' and
\* then the event of its type, both with the push's id and payload and both
\* after the response has been ended; any other push emits nothing.
C17_MessageThenSpecific ==
    completed.op = "POST"
    => IF completed.next /\ completed.res.status = 200
       THEN LET payload == <<TypeOf(completed.id), completed.body, completed.id[2]>> IN
            /\ completed.res.ended /\ completed.endedAt = 0
            /\ Len(completed.emitted) = 2
            /\ completed.emitted[1] = [name |-> "message", id |-> completed.id,
                                       info |-> payload]
            /\ completed.emitted[2] =
                 [name |-> IF TypeOf(completed.id) = "UserFollows"
                           THEN "userFollows" ELSE "userChanged",
                  id |-> completed.id, info |-> payload]
       ELSE completed.emitted = <<>>

C17_Witness ==
    /\ completed.op = "POST" /\ completed.next /\ completed.res.status = 200
    /\ Len(completed.emitted) = 2 /\ completed.emitted[2].name = "userChanged"
    /\ completed.endedAt = 0

\* C18: every stored record with subscribed = TRUE has subscriptionStart and
\* subscriptionEnd set, and a step after which a record is subscribed that was
\* not before is the last step of a confirmation callback for its id, which
\* saved it.
C18_StartAndEndSet ==
    \A id \in DOMAIN store :
        store[id].subscribed
        => store[id].subscriptionStart # None /\ store[id].subscriptionEnd # None
IsSubscribed(s, id) == id \in DOMAIN s /\ s[id].subscribed
C18_SubscribedByConfirmation ==
    /\ C18_StartAndEndSet
    /\ [][/\ C18_StartAndEndSet'
          /\ \A id \in WebhookIds :
                (IsSubscribed(store', id) /\ ~IsSubscribed(store, id))
                => /\ Confirm(completed)' /\ completed'.id = id
                   /\ completed'.saves = 1
                   /\ \E p \in Calls : calls[p].op = "GET" /\ calls[p].pc = "saveWebhook"
                                       /\ calls'[p].pc = "done"]_vars

C18_Witness ==
    /\ Confirm(completed) /\ IsSubscribed(store, completed.id)
    /\ store[completed.id].subscriptionEnd # None
    /\ \E q \in Calls : /\ calls[q].op = "subscribe" /\ calls[q].result = "resolved"
                        /\ calls[q].persists = 1 /\ calls[q].requests = 1
                        /\ calls[q].id = completed.id

\* C19 as claimed: while an id has a record, from one step to the next, the
\* secret stored under it stays the same.
C19_SecretImmutable ==
    [][\A id \in WebhookIds :
          (id \in DOMAIN store /\ id \in DOMAIN store')
          => store'[id].secret = store[id].secret]_vars

\* C20: resubscribe for an id with a record sends the hub a request with mode
\* 'subscribe' and the callback, topic, lease seconds and secret of the record
\* as it was stored when looked up; no step of a resubscribe call changes the
\* store, and when the call has ended, no callback for the id having been
\* processed, the record is stored as before.
C20_Request ==
    (completed.op = "resubscribe" /\ completed.webhook # None)
    => LET w == The(completed.webhook) IN
       /\ completed.posts # <<>>
       /\ completed.posts[1] =
            [token |-> getOAuthToken(None), mode |-> "subscribe", callback |-> w.id,
             topic |-> w.href, lease_seconds |-> w.leaseSeconds, secret |-> w.secret]
       /\ w.id = completed.id
       /\ completed.persists = 0 /\ completed.saves = 0 /\ completed.deletes = 0
       /\ (NoCallback(completed.id) /\ Cardinality(Inserters(completed.id)) <= 1)
          => (completed.id \in DOMAIN store /\ store[completed.id] = w)
C20_ResubscribeKeepsStore ==
    [][/\ C20_Request'
       /\ \A p \in Calls :
             (calls'[p] # calls[p] /\ calls'[p].op = "resubscribe")
             => /\ store' = store
                /\ (calls[p].pc = "getWebhookById" /\ calls[p].id \in DOMAIN store)
                   => calls'[p].webhook = Some(store[calls[p].id])]_vars

C20_Witness ==
    /\ completed.op = "resubscribe" /\ completed.result = "resolved"
    /\ IsSubscribed(store, completed.id)
    /\ store[completed.id] = The(completed.webhook)
    /\ completed.posts[1].mode = "subscribe"

\* C21: a listener that throws leaves the result of a callback as it is when
\* the listener returns: a confirmation that has saved its record has also
\* registered the id with the renewal scheduler, an accepted push has emitted
\* the event of its type after 'message', and a denial has deleted the
\* record, whichever listener throws.
C21_ListenerIsolation ==
    /\ (Confirm(completed) /\ renewalScheduler) => completed.id \in scheduler
    /\ (completed.op = "POST" /\ completed.res.ended /\ completed.res.status = 200)
       => \E i \in 1..Len(completed.emitted) :
             completed.emitted[i].name = SpecificEventName(TypeOf(completed.id))
    /\ Denied(completed) => completed.id \notin DOMAIN store

\* C22: once destroy has returned the interval is cleared and the timer has
\* not called run() since, renewalScheduler.destroy() has been called once
\* when a scheduler was configured and persistenceManager.destroy() once; with
\* a runInterval of Infinity the timer never calls run(); and no step of
\* destroy changes a call in flight, so a hub request that is awaited when
\* destroy is called goes on to its response.
C22_Destroyed ==
    /\ manager.pc = "done"
       => /\ ~manager.renewalInterval
          /\ "done" \notin manager.runs
          /\ manager.schedulerDestroys = IF manager.configured THEN 1 ELSE 0
          /\ manager.persistenceDestroys = 1
          /\ ~renewalScheduler
    /\ manager.runInterval = Infinity => manager.runs = {}
    /\ \A p \in manager.inFlight :
          \/ calls[p].pc \in {"post", "retry", "refreshOAuthToken"}
          \/ calls[p].pc = "done" /\ calls[p].requests >= 1
C22_DestroyStopsTimer ==
    [][/\ C22_Destroyed'
       /\ manager'.pc # manager.pc => calls' = calls]_vars

C22_Witness ==
    /\ manager.pc = "done" /\ manager.configured
    /\ manager.runs = {"idle"}
    /\ manager.schedulerDestroys = 1 /\ manager.persistenceDestroys = 1
    /\ completed.op = "resubscribe" /\ completed.result = "resolved"
    /\ \E p \in manager.inFlight : calls[p].pc = "done" /\ calls[p].id = completed.id

\* C23: unsubFromAll has completed once every call of
\* unsubscribePersistenceObject it made has settled and every id whose
\* request the hub accepted has been emitted with 'unsubscribed', for every
\* store it listed, the empty one included, and also when some of the calls
\* have failed and their ids are never emitted.
C23_Settled ==
    /\ bulk.pc \notin {"idle", "getAllWebhooks"}
    /\ \A id \in bulk.listed :
          /\ bulk.subs[id].pc = "done"
          /\ bulk.subs[id].result = "resolved" => id \in bulk.heard
C23_BulkCompletes == C23_Settled => bulk.pc = "done"

\* C24: whenever no call is in flight, every id registered with the renewal
\* scheduler has a record in the store.
C24_RegisteredAreStored ==
    (\A p \in Calls : calls[p].pc \in {"idle", "done"})
    => scheduler \subseteq DOMAIN store

=========================================================================
